---- MODULE Spec2Model ----
(***************************************************************************)
(* Dispatch core of the image-retrieval agent front-end:                   *)
(*   - AgentService (app/services/agent_service.py): the session store,    *)
(*     the keyword intent classifier, the query optimizer and the response *)
(*     synthesizer;                                                        *)
(*   - AgentInterface and the /agent routes (app/routers/agent.py): direct *)
(*     action execution and the chat turn.                                 *)
(*                                                                         *)
(* Strings the code inspects character by character (queries, keywords)    *)
(* are sequences of one-character strings; a CJK character is written as   *)
(* its code point ("U5220" is U+5220).  The fixed messages of the code are *)
(* written in English.  Python's None is the value None.  Confidences are  *)
(* in tenths (8 is 0.8).  A raised exception is the status of the          *)
(* operation: "503" is HTTPException(status_code=503), "ValueError" and    *)
(* "RuntimeError" are the exceptions of those names, which no route        *)
(* catches.  The backends (search, storage, vector index) are outside the  *)
(* code: their readiness is state, their answers are inputs.               *)
(***************************************************************************)
EXTENDS Naturals, Sequences, FiniteSets, TLC

VARIABLES
    instance,       \* AgentService._instance is not None
    agent_service,  \* the module global _agent_service is not None
    initialized,    \* AgentService._initialized
    sessions,       \* AgentService._sessions: session id -> session record
    uuids,          \* the ids uuid.uuid4() has produced so far
    clock,          \* the value datetime.now() returns: a logical clock, which
                    \* every operation that reads it advances
    search_ready,   \* search_service.is_initialized
    vector_ready,   \* vector_db_service.is_initialized
    calls,          \* backend calls made by the last operation, in order
    resp,           \* the last operation, its request and its outcome
    inflight        \* the chat turns taken statement by statement: the
                    \* position and the local variables of each

vars == <<instance, agent_service, initialized, sessions, uuids, clock,
          search_ready, vector_ready, calls, resp, inflight>>

----------------------------------------------------------------------------
(* Bounds *)

\* the clock stops here, and with it every operation that reads the clock:
\* creating a session, recording a history event, answering a chat turn
MaxClock == 3
\* the largest number of hits a search reports
MaxTotal == 12
\* the number of chat turns that can be in flight at once
MaxInflight == 2

None == "None"

\* None where the code expects a dict
NoneRec == [none |-> TRUE]

Uuid(n) == "uuid-" \o ToString(n)
\* the pool uuid.uuid4() draws from: more ids than the clock allows draws
MaxUuids == MaxClock + 1
Uuids == { Uuid(n) : n \in 1..MaxUuids }

----------------------------------------------------------------------------
(* Strings *)

UpperLetters == <<"A","B","C","D","E","F","G","H","I","J","K","L","M",
                  "N","O","P","Q","R","S","T","U","V","W","X","Y","Z">>
LowerLetters == <<"a","b","c","d","e","f","g","h","i","j","k","l","m",
                  "n","o","p","q","r","s","t","u","v","w","x","y","z">>

\* str.lower() on one character
LowerChar(c) ==
    IF \E i \in 1..Len(UpperLetters) : UpperLetters[i] = c
    THEN LowerLetters[CHOOSE i \in 1..Len(UpperLetters) : UpperLetters[i] = c]
    ELSE c

\* str.lower()
Lower(s) == [i \in 1..Len(s) |-> LowerChar(s[i])]

\* kw in s
Contains(kw, s) ==
    \E i \in 1..(Len(s) + 1) :
        /\ i + Len(kw) - 1 <= Len(s)
        /\ SubSeq(s, i, i + Len(kw) - 1) = kw

\* any(kw in s for kw in kws)
AnyIn(kws, s) == \E kw \in kws : Contains(kw, s)

DeleteKeywords == { <<"U5220","U9664">>, <<"U5220","U6389">>,
                    <<"r","e","m","o","v","e">>, <<"d","e","l","e","t","e">> }
UploadKeywords == { <<"U4E0A","U4F20">>, <<"U6DFB","U52A0">>,
                    <<"u","p","l","o","a","d">>, <<"a","d","d">> }
AnalyzeKeywords == { <<"U5206","U6790">>, <<"U8BC6","U522B">>,
                     <<"U8FD9","U662F","U4EC0","U4E48">>,
                     <<"a","n","a","l","y","z","e">> }

----------------------------------------------------------------------------
(* AgentService: pure methods *)

\* detect_intent with the upload keywords tried before the delete keywords
detect_intent_UploadFirst(user_query) ==
    LET query_lower == Lower(user_query) IN
    IF AnyIn(UploadKeywords, query_lower)
    THEN [intent |-> "upload", confidence |-> 8, entities |-> {}]
    ELSE IF AnyIn(DeleteKeywords, query_lower)
    THEN [intent |-> "delete", confidence |-> 8, entities |-> {}]
    ELSE IF AnyIn(AnalyzeKeywords, query_lower)
    THEN [intent |-> "analyze", confidence |-> 7, entities |-> {}]
    ELSE [intent |-> "search", confidence |-> 9, entities |-> {}]

detect_intent(user_query) ==
    LET query_lower == Lower(user_query) IN
    IF AnyIn(DeleteKeywords, query_lower)
    THEN [intent |-> "delete", confidence |-> 8, entities |-> {}]
    ELSE IF AnyIn(UploadKeywords, query_lower)
    THEN [intent |-> "upload", confidence |-> 8, entities |-> {}]
    ELSE IF AnyIn(AnalyzeKeywords, query_lower)
    THEN [intent |-> "analyze", confidence |-> 7, entities |-> {}]
    ELSE [intent |-> "search", confidence |-> 9, entities |-> {}]

\* isinstance(results, dict): the chat turn passes a dict or None
IsDict(results) == results # NoneRec

\* results.get("total", 0)
GetTotal(results) == IF "total" \in DOMAIN results THEN results.total ELSE 0

generate_response(intent, results, user_query) ==
    IF intent = "search" /\ IsDict(results)
    THEN LET total == GetTotal(results) IN
         IF total = 0
         THEN [template |-> "sorry, no photo matches <query>; try another description",
               query |-> user_query]
         ELSE IF total = 1
         THEN [template |-> "found 1 photo matching <query>",
               query |-> user_query]
         ELSE [template |-> "found <total> photos related to <query>",
               total |-> total, query |-> user_query]
    ELSE IF intent = "search" THEN [template |-> "your request is done"]
    ELSE IF intent = "delete" THEN [template |-> "the delete is done"]
    ELSE IF intent = "upload" THEN [template |-> "the image was uploaded"]
    ELSE IF intent = "analyze" THEN [template |-> "image analysis is coming soon"]
    ELSE [template |-> "your request is done"]

generate_suggestions(intent, results) ==
    IF intent = "search" /\ IsDict(results)
    THEN LET total == GetTotal(results) IN
         IF total = 0
         THEN <<"try another description", "see all photos", "filter by date">>
         ELSE IF total > 10
         THEN <<"add detail to narrow down", "filter by tag", "see similar images">>
         ELSE <<"find similar photos", "when were these taken", "tag these photos">>
    ELSE <<>>

----------------------------------------------------------------------------
(* AgentService: the session store *)

\* a truthy Optional[str]: neither None nor ""
Truthy(s) == s # None /\ s # ""

\* AgentService.__new__ and __init__ on the service state
\* svc = [instance, initialized, sessions]
AgentServiceNew(svc) ==
    [instance    |-> TRUE,
     initialized |-> IF svc.instance THEN svc.initialized ELSE FALSE,
     sessions    |-> <<>>]

\* get_agent_service(): g is "_agent_service is not None"
get_agent_service(g, svc) == IF g THEN svc ELSE AgentServiceNew(svc)

\* the session record create_session stores
NewSession(user_id, now) ==
    [user_id |-> user_id, created_at |-> now, history |-> <<>>, context |-> <<>>]

\* create_session: S is _sessions, id the uuid4 drawn
create_session(S, id, user_id, now) == (id :> NewSession(user_id, now)) @@ S

\* _sessions.get(session_id)
get_session(S, session_id) ==
    IF session_id \in DOMAIN S THEN S[session_id] ELSE NoneRec

\* "if session": None is falsy, and so is an empty dict (a session never is one)
IsSession(session) == session # NoneRec /\ DOMAIN session # {}

QueryOptimizeEvent(user_query, optimized_query, now) ==
    [type |-> "query_optimize", original |-> user_query,
     optimized |-> optimized_query, timestamp |-> now]

\* optimize_query that forgets to record the event
optimize_query_NoEvent(S, user_query, session_id, now) ==
    [ret |-> user_query, sessions |-> S]

\* optimize_query that assigns the history instead of appending to it
optimize_query_Assign(S, user_query, session_id, now) ==
    [ret |-> user_query,
     sessions |->
        IF Truthy(session_id) /\ session_id \in DOMAIN S
        THEN [S EXCEPT ![session_id].history =
                  << QueryOptimizeEvent(user_query, user_query, now) >>]
        ELSE S]

\* optimize_query: the value returned and _sessions afterwards
optimize_query(S, user_query, session_id, now) ==
    LET optimized_query == user_query
        session == get_session(S, session_id)
    IN  [ret |-> optimized_query,
         sessions |->
            IF Truthy(session_id) /\ IsSession(session)
            THEN [S EXCEPT ![session_id].history =
                      Append(@, QueryOptimizeEvent(user_query, optimized_query, now))]
            ELSE S]

----------------------------------------------------------------------------
(* Inputs *)

\* session ids a caller can send: none, the empty string, an id it was given
\* earlier, or a string that was never an id
SessionIdInputs == uuids \cup {None, "", "no-such-session"}

UserIds == {None, "alice"}

\* uuid.uuid4() when the ids of used have been drawn: an id never drawn
\* before (ids are drawn in a fixed order, one id being as good as another)
FreshAfter(used) ==
    IF Uuids \subseteq used
    THEN {}
    ELSE { Uuid(CHOOSE n \in 1..MaxUuids :
                /\ Uuid(n) \notin used
                /\ \A m \in 1..(n - 1) : Uuid(m) \in used) }

FreshUuids == FreshAfter(uuids)

QSearch  == <<"d","o","g">>
QDelete  == <<"U5220","U9664","U7167","U7247">>
QUpload  == <<"A","d","d">>
QAnalyze == <<"U5206","U6790">>
ChatQueries == {QSearch, QDelete, QUpload, QAnalyze}
StoreQueries == {QSearch, QDelete}

\* what search_by_text returns: a list of hits
Hits(n) == [i \in 1..n |-> "hit"]
HitCounts == {0, 1, 11}

\* chat messages with the queries of Q and the top_k of K
ChatMessages(Q, K) ==
    [query : Q, session_id : SessionIdInputs, top_k : K, score_threshold : {None}]

----------------------------------------------------------------------------
(* The service state the handlers work on *)

Svc == [instance |-> instance, initialized |-> initialized, sessions |-> sessions]

\* Depends(get_agent_service)
Injected == get_agent_service(agent_service, Svc)

\* initialize(): sets _initialized unless it is set
initialize(init) == IF init THEN init ELSE TRUE

\* datetime.now() can still be read
ClockRuns == clock < MaxClock

----------------------------------------------------------------------------
(* POST /agent/chat *)

\* a dispatch that acts on a delete intent itself
ChatDispatch_DeletesFile(intent, optimized_query, message, ready, n) ==
    IF intent = "search"
    THEN IF ~ready
         THEN [status |-> "503", results |-> NoneRec, calls |-> <<>>]
         ELSE [status |-> "200",
               results |-> [total |-> Len(Hits(n)), images |-> Hits(n)],
               calls |-> << [svc |-> "search", fn |-> "search_by_text",
                             query_text |-> optimized_query,
                             top_k |-> message.top_k,
                             score_threshold |-> message.score_threshold,
                             returned |-> Hits(n)] >>]
    ELSE IF intent = "delete"
    THEN [status |-> "200",
          calls |-> << [svc |-> "storage", fn |-> "delete_image",
                        image_id |-> optimized_query, returned |-> TRUE] >>,
          results |-> [message |-> "image deleted"]]
    ELSE IF intent = "upload"
    THEN [status |-> "200", calls |-> <<>>,
          results |-> [message |-> "to upload use /storage/upload"]]
    ELSE IF intent = "analyze"
    THEN [status |-> "200", calls |-> <<>>,
          results |-> [message |-> "image analysis is coming soon"]]
    ELSE [status |-> "200", calls |-> <<>>,
          results |-> [message |-> "sorry, I do not understand"]]

\* the action dispatch of the chat turn: status, results and backend calls
ChatDispatch(intent, optimized_query, message, ready, n) ==
    IF intent = "search"
    THEN IF ~ready
         THEN [status |-> "503", results |-> NoneRec, calls |-> <<>>]
         ELSE [status |-> "200",
               results |-> [total |-> Len(Hits(n)), images |-> Hits(n)],
               calls |-> << [svc |-> "search", fn |-> "search_by_text",
                             query_text |-> optimized_query,
                             top_k |-> message.top_k,
                             score_threshold |-> message.score_threshold,
                             returned |-> Hits(n)] >>]
    ELSE IF intent = "delete"
    THEN [status |-> "200", calls |-> <<>>,
          results |-> [message |-> "delete needs an image id, use /agent/execute"]]
    ELSE IF intent = "upload"
    THEN [status |-> "200", calls |-> <<>>,
          results |-> [message |-> "to upload use /storage/upload"]]
    ELSE IF intent = "analyze"
    THEN [status |-> "200", calls |-> <<>>,
          results |-> [message |-> "image analysis is coming soon"]]
    ELSE [status |-> "200", calls |-> <<>>,
          results |-> [message |-> "sorry, I do not understand"]]

\* the turn without its second look-up: the supplied id is kept as it is
ChatSession_NoRecheck(S, session_id, id1, id2, now) ==
    LET first == ~Truthy(session_id) IN
    [session_id |-> IF first THEN id1 ELSE session_id,
     sessions   |-> IF first THEN create_session(S, id1, None, now) ELSE S,
     first      |-> first,
     second     |-> FALSE,
     drawn      |-> IF first THEN {id1} ELSE {}]

\* "create or fetch the session" of the chat turn: the id and _sessions
\* afterwards; id1, id2 are the uuids the two create_session calls draw
\* (when they run), second tells whether the second call runs
ChatSession(S, session_id, id1, id2, now) ==
    LET first == ~Truthy(session_id)
        sid1  == IF first THEN id1 ELSE session_id
        S1    == IF first THEN create_session(S, id1, None, now) ELSE S
        session == get_session(S1, sid1)
        second == ~IsSession(session)
    IN  [session_id |-> IF second THEN id2 ELSE sid1,
         sessions   |-> IF second THEN create_session(S1, id2, None, now) ELSE S1,
         first      |-> first,
         second     |-> second,
         drawn      |-> (IF first THEN {id1} ELSE {}) \cup (IF second THEN {id2} ELSE {})]

\* hit_counts: the numbers of hits the search backend may answer with
agent_chat(message, hit_counts) ==
    LET svc == Injected
        S0  == svc.sessions
        intent == detect_intent(message.query).intent
    IN
    \E id1 \in (IF ~Truthy(message.session_id) THEN FreshUuids ELSE {None}) :
    \E id2 \in (IF ChatSession(S0, message.session_id, id1, None, clock).second
                THEN FreshAfter(uuids \cup {id1}) ELSE {None}) :
    \E n \in (IF intent = "search" /\ search_ready THEN hit_counts ELSE {0}) :
        LET cs == ChatSession(S0, message.session_id, id1, id2, clock)
            opt == optimize_query(cs.sessions, message.query, cs.session_id, clock)
            d == ChatDispatch(intent, opt.ret, message, search_ready, n)
        IN
        /\ ClockRuns
        /\ clock' = clock + 1
        /\ instance' = svc.instance
        /\ agent_service' = TRUE
        /\ initialized' = initialize(svc.initialized)
        /\ sessions' = opt.sessions
        /\ uuids' = uuids \cup cs.drawn
        /\ calls' = d.calls
        /\ resp' =
            IF d.status = "503"
            THEN [op |-> "chat", request |-> message, status |-> "503",
                  detail |-> "search service not initialized"]
            ELSE [op |-> "chat", request |-> message, status |-> "200",
                  session_id |-> cs.session_id,
                  answer |-> generate_response(intent, d.results, message.query),
                  intent |-> intent,
                  optimized_query |-> opt.ret,
                  results |-> d.results,
                  suggestions |-> generate_suggestions(intent, d.results),
                  timestamp |-> clock]
        /\ UNCHANGED <<search_ready, vector_ready, inflight>>

----------------------------------------------------------------------------
(* POST /agent/session/create, GET /agent/session/{session_id} *)

create_session_endpoint(user_id) ==
    LET svc == Injected IN
    \E id \in FreshUuids :
        /\ ClockRuns
        /\ clock' = clock + 1
        /\ instance' = svc.instance
        /\ agent_service' = TRUE
        /\ initialized' = initialize(svc.initialized)
        /\ sessions' = create_session(svc.sessions, id, user_id, clock)
        /\ uuids' = uuids \cup {id}
        /\ calls' = <<>>
        /\ resp' = [op |-> "create_session", request |-> [user_id |-> user_id],
                    status |-> "200", session_id |-> id,
                    message |-> "session created"]
        /\ UNCHANGED <<search_ready, vector_ready, inflight>>

get_session_info(session_id) ==
    LET svc == Injected
        session == get_session(svc.sessions, session_id)
    IN
    /\ instance' = svc.instance
    /\ agent_service' = TRUE
    /\ initialized' = svc.initialized
    /\ sessions' = svc.sessions
    /\ calls' = <<>>
    /\ resp' =
        IF ~IsSession(session)
        THEN [op |-> "get_session_info", request |-> [session_id |-> session_id],
              status |-> "404"]
        ELSE [op |-> "get_session_info", request |-> [session_id |-> session_id],
              status |-> "200",
              session |-> [session_id |-> session_id,
                           user_id |-> session.user_id,
                           created_at |-> session.created_at,
                           history_count |-> Len(session.history),
                           context |-> session.context]]
    /\ UNCHANGED <<uuids, clock, search_ready, vector_ready, inflight>>

----------------------------------------------------------------------------
(* AgentService methods called on the injected service *)

\* get_agent_service().optimize_query(user_query, session_id)
OptimizeQuery(user_query, session_id) ==
    LET svc == Injected
        opt == optimize_query(svc.sessions, user_query, session_id, clock)
    IN
    /\ opt.sessions # svc.sessions => ClockRuns
    /\ clock' = IF opt.sessions # svc.sessions THEN clock + 1 ELSE clock
    /\ instance' = svc.instance
    /\ agent_service' = TRUE
    /\ initialized' = svc.initialized
    /\ sessions' = opt.sessions
    /\ calls' = <<>>
    /\ resp' = [op |-> "optimize_query",
                request |-> [user_query |-> user_query, session_id |-> session_id],
                status |-> "returned", ret |-> opt.ret]
    /\ UNCHANGED <<uuids, search_ready, vector_ready, inflight>>

\* get_agent_service().initialize()
Initialize ==
    LET svc == Injected IN
    /\ instance' = svc.instance
    /\ agent_service' = TRUE
    /\ initialized' = initialize(svc.initialized)
    /\ sessions' = svc.sessions
    /\ calls' = <<>>
    /\ resp' = [op |-> "initialize", status |-> "returned"]
    /\ UNCHANGED <<uuids, clock, search_ready, vector_ready, inflight>>

\* AgentService(): the class called directly
Construct ==
    LET svc == AgentServiceNew(Svc) IN
    /\ instance' = svc.instance
    /\ initialized' = svc.initialized
    /\ sessions' = svc.sessions
    /\ calls' = <<>>
    /\ resp' = [op |-> "AgentService", status |-> "returned"]
    /\ UNCHANGED <<agent_service, uuids, clock, search_ready, vector_ready, inflight>>

----------------------------------------------------------------------------
(* AgentInterface: direct action execution *)

\* params.get(key), params.get(key, default)
Get(params, key, default) == IF key \in DOMAIN params THEN params[key] ELSE default

\* "image_id is None" in place of "not image_id"
Falsy_NoneOnly(v) == v = None

\* "not image_id": None and the empty string are falsy
Falsy(v) == v = None \/ v = ""

\* what the backends answer during one call: env = [total, file_deleted,
\* vector_deleted, updated]

\* _execute_search: outcome and backend calls
execute_search(params, ready, env) ==
    IF ~ready
    THEN [raised |-> "RuntimeError", calls |-> <<>>,
          detail |-> "search service not initialized"]
    ELSE [raised |-> None,
          calls |-> << [svc |-> "search", fn |-> "search",
                        query_text |-> Get(params, "query_text", None),
                        top_k |-> Get(params, "top_k", 10),
                        returned |-> [total |-> env.total]] >>,
          result |-> [success |-> TRUE, action |-> "search",
                      result |-> [total |-> env.total],
                      message |-> "found <total> related images"]]

\* _execute_upload
execute_upload(params) ==
    [raised |-> None, calls |-> <<>>,
     result |-> [success |-> FALSE, action |-> "upload",
                 message |-> "URL upload is not implemented, use /storage/upload"]]

\* _execute_delete that succeeds only when both deletions did
execute_delete_BothNeeded(params, vready, env) ==
    LET image_id == Get(params, "image_id", None)
        both == env.file_deleted /\ vready /\ env.vector_deleted
    IN
    IF Falsy(image_id)
    THEN [raised |-> "ValueError", calls |-> <<>>,
          detail |-> "image_id is required"]
    ELSE [raised |-> None,
          calls |-> << [svc |-> "storage", fn |-> "delete_image",
                        image_id |-> image_id, returned |-> env.file_deleted] >>
                    \o (IF vready
                        THEN << [svc |-> "vector_db", fn |-> "delete",
                                 image_id |-> image_id,
                                 returned |-> env.vector_deleted] >>
                        ELSE <<>>),
          result |-> [success |-> both, action |-> "delete",
                      result |-> [file_deleted |-> env.file_deleted,
                                  vector_deleted |-> vready /\ env.vector_deleted],
                      message |-> IF both THEN "image deleted" ELSE "no such image"]]

\* _execute_delete
execute_delete(params, vready, env) ==
    LET image_id == Get(params, "image_id", None) IN
    IF Falsy(image_id)
    THEN [raised |-> "ValueError", calls |-> <<>>,
          detail |-> "image_id is required"]
    ELSE LET file_deleted == env.file_deleted
             storage_call == [svc |-> "storage", fn |-> "delete_image",
                              image_id |-> image_id, returned |-> env.file_deleted]
             vector_call == [svc |-> "vector_db", fn |-> "delete",
                             image_id |-> image_id, returned |-> env.vector_deleted]
             vector_deleted == IF vready THEN env.vector_deleted ELSE FALSE
         IN  [raised |-> None,
              calls |-> IF vready THEN <<storage_call, vector_call>>
                                  ELSE <<storage_call>>,
              result |-> [success |-> file_deleted, action |-> "delete",
                          result |-> [file_deleted |-> file_deleted,
                                      vector_deleted |-> vector_deleted],
                          message |-> IF file_deleted THEN "image deleted"
                                                      ELSE "no such image"]]

\* the update_data dict _execute_update builds
UpdateData(params) ==
    [k \in {"tags", "description"} \cap DOMAIN params |-> params[k]]

\* _execute_update
execute_update(params, env) ==
    LET image_id == Get(params, "image_id", None)
        update_data == UpdateData(params)
    IN
    IF Falsy(image_id)
    THEN [raised |-> "ValueError", calls |-> <<>>,
          detail |-> "image_id is required"]
    ELSE IF DOMAIN update_data = {}
    THEN [raised |-> None, calls |-> <<>>,
          result |-> [success |-> FALSE, action |-> "update",
                      message |-> "nothing to update"]]
    ELSE [raised |-> None,
          calls |-> << [svc |-> "vector_db", fn |-> "update_metadata",
                        image_id |-> image_id, update_data |-> update_data,
                        returned |-> env.updated] >>,
          result |-> [success |-> env.updated, action |-> "update",
                      message |-> IF env.updated THEN "updated"
                                                 ELSE "update failed"]]

\* _execute_analyze
execute_analyze(params) ==
    [raised |-> None, calls |-> <<>>,
     result |-> [success |-> FALSE, action |-> "analyze",
                 message |-> "image analysis is not implemented yet"]]

\* execute_action
execute_action(action, params, ready, vready, env) ==
    IF action = "search" THEN execute_search(params, ready, env)
    ELSE IF action = "upload" THEN execute_upload(params)
    ELSE IF action = "delete" THEN execute_delete(params, vready, env)
    ELSE IF action = "update" THEN execute_update(params, env)
    ELSE IF action = "analyze" THEN execute_analyze(params)
    ELSE [raised |-> "ValueError", calls |-> <<>>,
          detail |-> "unsupported action"]

\* _generate_suggestions with "total >= 10" for "total > 10"
router_generate_suggestions_AtLeast10(action, result) ==
    IF action = "search"
    THEN IF result.success
         THEN LET total == GetTotal(Get(result, "result", <<>>)) IN
              IF total = 0
              THEN <<"try other keywords", "check whether a tag can filter">>
              ELSE IF total >= 10
              THEN <<"add a more specific description", "filter by tag">>
              ELSE <<>>
         ELSE <<>>
    ELSE IF action = "delete"
    THEN IF result.success THEN <<"deleted, related data cleaned up">> ELSE <<>>
    ELSE IF action = "update"
    THEN IF result.success THEN <<"updated, search to verify">> ELSE <<>>
    ELSE <<>>

\* _generate_suggestions(action, result) of the router
router_generate_suggestions(action, result) ==
    IF action = "search"
    THEN IF result.success
         THEN LET total == GetTotal(Get(result, "result", <<>>)) IN
              IF total = 0
              THEN <<"try other keywords", "check whether a tag can filter">>
              ELSE IF total > 10
              THEN <<"add a more specific description", "filter by tag">>
              ELSE <<>>
         ELSE <<>>
    ELSE IF action = "delete"
    THEN IF result.success THEN <<"deleted, related data cleaned up">> ELSE <<>>
    ELSE IF action = "update"
    THEN IF result.success THEN <<"updated, search to verify">> ELSE <<>>
    ELSE <<>>

AgentActions == {"search", "upload", "delete", "update", "analyze"}

\* POST /agent/execute
execute_agent_action(request, env) ==
    LET out == execute_action(request.action, request.parameters,
                              search_ready, vector_ready, env)
    IN
    /\ calls' = out.calls
    /\ resp' =
        IF out.raised # None
        THEN [op |-> "execute", request |-> request, status |-> out.raised,
              detail |-> out.detail]
        ELSE [op |-> "execute", request |-> request, status |-> "200",
              response |->
                [status |-> IF out.result.success THEN "success" ELSE "error",
                 message |-> out.result.message,
                 action |-> request.action,
                 result |-> Get(out.result, "result", NoneRec),
                 suggestions |->
                    router_generate_suggestions(request.action, out.result)]]
    /\ UNCHANGED <<instance, agent_service, initialized, sessions, uuids,
                   clock, search_ready, vector_ready, inflight>>

----------------------------------------------------------------------------
(* Requests to /agent/execute and backend answers *)

\* a dict with the key k absent, or present with a value of vals
OptField(k, vals) == { <<>> } \cup { (k :> v) : v \in vals }

ExecParameters ==
    { a @@ b @@ c @@ d @@ e :
        a \in OptField("image_id", {None, "", "img-1"}),
        b \in OptField("tags", { <<"cat">> }),
        c \in OptField("description", { "a cat" }),
        d \in OptField("query_text", { QSearch }),
        e \in OptField("top_k", { 1 }) }

ExecRequests == [action : AgentActions, parameters : ExecParameters]

\* the requests that carry at most a query and a top_k
QueryRequests ==
    { r \in ExecRequests : DOMAIN r.parameters \subseteq {"query_text", "top_k"} }

\* the answers the backends can give to the calls of one action
Envs(action) ==
    [total : IF action = "search" THEN HitCounts ELSE {0},
     file_deleted : IF action = "delete" THEN BOOLEAN ELSE {FALSE},
     vector_deleted : IF action = "delete" THEN BOOLEAN ELSE {FALSE},
     updated : IF action = "update" THEN BOOLEAN ELSE {FALSE}]

----------------------------------------------------------------------------
(* POST /agent/chat, statement by statement *)

\* A turn in flight holds the local variables of agent_chat and of the
\* optimize_query call it makes, and pc, the statement it is about to run.
\* Turns interleave between statements: at the search call, where a turn
\* waits for the backend, and at every access to _sessions.  pc runs through
\* "session", "optimize_lookup", "optimize_append" and "dispatch" and ends
\* in "responded", "failed" (the dispatch raised) or "cancelled".

Slots == 1..MaxInflight

Idle == [pc |-> "idle"]

\* r with r[k] set to v
Assign(r, k, v) == (k :> v) @@ r

\* an append that puts the event in place of the history
append_event_Assign(S, session_id, event) ==
    [S EXCEPT ![session_id].history = << event >>]

\* an append of the event without its last two entries
append_event_Partial(S, session_id, event) ==
    [S EXCEPT ![session_id].history =
        Append(@, [type |-> event.type, original |-> event.original])]

\* session["history"].append(event), session being _sessions[session_id]
append_event(S, session_id, event) ==
    [S EXCEPT ![session_id].history = Append(@, event)]

\* the request arrives: the service is injected and initialized
TurnBegin(t, message) ==
    LET svc == Injected IN
    /\ inflight[t] = Idle
    /\ \A u \in 1..(t - 1) : inflight[u] # Idle
    /\ Cardinality(uuids)
         + Cardinality({ u \in Slots : inflight[u].pc = "session" }) < MaxUuids
    /\ instance' = svc.instance
    /\ agent_service' = TRUE
    /\ initialized' = initialize(svc.initialized)
    /\ sessions' = svc.sessions
    /\ inflight' = [inflight EXCEPT ![t] =
                        [pc |-> "session", message |-> message]]
    /\ UNCHANGED <<uuids, clock, search_ready, vector_ready, calls, resp>>

\* "create or fetch the session", then detect_intent
TurnSession(t) ==
    LET turn == inflight[t]
        supplied == turn.message.session_id
    IN
    /\ turn.pc = "session"
    /\ \E id1 \in (IF ~Truthy(supplied) THEN FreshUuids ELSE {None}) :
       \E id2 \in (IF ChatSession(sessions, supplied, id1, None, clock).second
                   THEN FreshAfter(uuids \cup {id1}) ELSE {None}) :
            LET cs == ChatSession(sessions, supplied, id1, id2, clock) IN
            /\ sessions' = cs.sessions
            /\ uuids' = uuids \cup cs.drawn
            /\ clock' = IF cs.drawn = {} THEN clock ELSE clock + 1
            /\ inflight' = [inflight EXCEPT ![t] =
                    [pc |-> "optimize_lookup", message |-> turn.message,
                     session_id |-> cs.session_id, drawn |-> cs.drawn,
                     intent |-> detect_intent(turn.message.query).intent]]
    /\ UNCHANGED <<instance, agent_service, initialized, search_ready,
                   vector_ready, calls, resp>>

\* optimize_query up to "if session": the look-up of the session.  The local
\* session is a reference to the stored dict, here the key it is stored under.
TurnOptimizeLookup(t) ==
    LET turn == inflight[t]
        session == get_session(sessions, turn.session_id)
    IN
    /\ turn.pc = "optimize_lookup"
    /\ inflight' = [inflight EXCEPT ![t] =
            Assign(Assign(turn, "pc", "optimize_append"), "session",
                   IF Truthy(turn.session_id) /\ IsSession(session)
                   THEN [ref |-> turn.session_id] ELSE NoneRec)]
    /\ UNCHANGED <<instance, agent_service, initialized, sessions, uuids,
                   clock, search_ready, vector_ready, calls, resp>>

\* optimize_query from the append to its return
TurnOptimizeAppend(t) ==
    LET turn == inflight[t]
        user_query == turn.message.query
        optimized_query == user_query
        event == QueryOptimizeEvent(user_query, optimized_query, clock)
    IN
    /\ turn.pc = "optimize_append"
    /\ IF turn.session # NoneRec
       THEN /\ sessions' = append_event(sessions, turn.session.ref, event)
            /\ clock' = clock + 1
            /\ inflight' = [inflight EXCEPT ![t] =
                    Assign(Assign(Assign(turn, "pc", "dispatch"),
                                  "optimized_query", optimized_query),
                           "event", event)]
       ELSE /\ UNCHANGED <<sessions, clock>>
            /\ inflight' = [inflight EXCEPT ![t] =
                    Assign(Assign(turn, "pc", "dispatch"),
                           "optimized_query", optimized_query)]
    /\ UNCHANGED <<instance, agent_service, initialized, uuids, search_ready,
                   vector_ready, calls, resp>>

\* the action dispatch and, when it returns, the answer: generate_response,
\* generate_suggestions and the ChatResponse; n is the number of hits the
\* search backend answers with
TurnDispatch(t, n) ==
    LET turn == inflight[t]
        d == ChatDispatch(turn.intent, turn.optimized_query, turn.message,
                          search_ready, n)
        raised == [op |-> "chat", request |-> turn.message, status |-> "503",
                   detail |-> "search service not initialized"]
        response ==
            [op |-> "chat", request |-> turn.message, status |-> "200",
             session_id |-> turn.session_id,
             answer |-> generate_response(turn.intent, d.results,
                                          turn.message.query),
             intent |-> turn.intent,
             optimized_query |-> turn.optimized_query,
             results |-> d.results,
             suggestions |-> generate_suggestions(turn.intent, d.results),
             timestamp |-> clock]
    IN
    /\ turn.pc = "dispatch"
    /\ calls' = d.calls
    /\ IF d.status = "503"
       THEN /\ inflight' = [inflight EXCEPT ![t] =
                    Assign(Assign(turn, "pc", "failed"), "response", raised)]
            /\ resp' = raised
            /\ UNCHANGED clock
       ELSE /\ inflight' = [inflight EXCEPT ![t] =
                    Assign(Assign(turn, "pc", "responded"), "response", response)]
            /\ resp' = response
            /\ clock' = clock + 1
    /\ UNCHANGED <<instance, agent_service, initialized, sessions, uuids,
                   search_ready, vector_ready>>

\* the turn is abandoned inside the search call: the call raises, or the
\* caller's timeout around the dispatch expires
TurnCancel(t) ==
    LET turn == inflight[t]
        abandoned == [op |-> "chat", request |-> turn.message,
                      status |-> "cancelled"]
    IN
    /\ turn.pc = "dispatch"
    /\ turn.intent = "search"
    /\ search_ready
    /\ calls' = << [svc |-> "search", fn |-> "search_by_text",
                    query_text |-> turn.optimized_query,
                    top_k |-> turn.message.top_k,
                    score_threshold |-> turn.message.score_threshold] >>
    /\ inflight' = [inflight EXCEPT ![t] =
            Assign(Assign(turn, "pc", "cancelled"), "response", abandoned)]
    /\ resp' = abandoned
    /\ UNCHANGED <<instance, agent_service, initialized, sessions, uuids,
                   clock, search_ready, vector_ready>>

----------------------------------------------------------------------------
(* Specifications *)

Init ==
    /\ instance = FALSE
    /\ agent_service = FALSE
    /\ initialized = FALSE
    /\ sessions = <<>>
    /\ uuids = {}
    /\ clock = 0
    /\ search_ready \in BOOLEAN
    /\ vector_ready \in BOOLEAN
    /\ calls = <<>>
    /\ resp = [op |-> "none"]
    /\ inflight = [t \in Slots |-> Idle]

\* the vector index plays no part in the session surface
InitSessions == Init /\ vector_ready

Chat == \E message \in ChatMessages(StoreQueries, {10}) : agent_chat(message, {1})

CreateSession == \E user_id \in UserIds : create_session_endpoint(user_id)

GetSessionInfo == \E session_id \in SessionIdInputs : get_session_info(session_id)

Optimize ==
    \E user_query \in StoreQueries : \E session_id \in SessionIdInputs :
        OptimizeQuery(user_query, session_id)

\* the session surface: chat turns, the session routes and the optimizer
Next ==
    \/ Chat
    \/ CreateSession
    \/ GetSessionInfo
    \/ Optimize
    \/ Initialize

Spec == InitSessions /\ [][Next]_vars

\* the same, with AgentService() also called directly
NextLifetime ==
    \/ Chat
    \/ CreateSession
    \/ GetSessionInfo
    \/ Optimize
    \/ Initialize
    \/ Construct

SpecLifetime == InitSessions /\ [][NextLifetime]_vars

\* the action dispatch: chat turns over every intent, top_k and hit count,
\* and direct executions that carry a query
MaxTurns == 2

ChatAny ==
    /\ clock < MaxTurns
    /\ \E message \in ChatMessages(ChatQueries, {1, 10}) :
            agent_chat(message, HitCounts)

ExecuteQuery ==
    \E request \in QueryRequests : \E env \in Envs(request.action) :
        execute_agent_action(request, env)

NextDispatch ==
    \/ ChatAny
    \/ ExecuteQuery

SpecDispatch == Init /\ [][NextDispatch]_vars

\* direct execution alone, over every request and backend answer
ExecuteAny ==
    \E request \in ExecRequests : \E env \in Envs(request.action) :
        execute_agent_action(request, env)

NextExecute == ExecuteAny

SpecExecute == Init /\ [][NextExecute]_vars

\* chat turns in flight at once, on a store that the session route has put
\* one session in
CreateFirst == uuids = {} /\ create_session_endpoint("alice")

\* the turns search: the one action that can fail or be abandoned
TurnMessages ==
    [query : {QSearch}, session_id : uuids \cup {None, "no-such-session"},
     top_k : {10}, score_threshold : {None}]

Begin == \E t \in Slots : \E message \in TurnMessages : TurnBegin(t, message)

ResolveSession == \E t \in Slots : TurnSession(t)

OptimizeLookup == \E t \in Slots : TurnOptimizeLookup(t)

OptimizeAppend == \E t \in Slots : TurnOptimizeAppend(t)

Dispatch == \E t \in Slots : TurnDispatch(t, 1)

Cancel == \E t \in Slots : TurnCancel(t)

NextTurns ==
    \/ CreateFirst
    \/ Begin
    \/ ResolveSession
    \/ OptimizeLookup
    \/ OptimizeAppend
    \/ Dispatch
    \/ Cancel

SpecTurns == InitSessions /\ [][NextTurns]_vars

----------------------------------------------------------------------------
(* The pure functions on their own *)

\* the backends play no part in the classifier
InitPure == Init /\ search_ready /\ vector_ready

\* pieces of text the classifier's queries are put together from
Fragments ==
    { <<"d","e","l","e","t","e">>, <<"D","E","L","E","T","E">>,
      <<"R","e","m","o","v","e">>, <<"U5220","U9664">>, <<"U5220","U6389">>,
      <<"u","p","l","o","a","d">>, <<"U","p","L","o","A","d">>,
      <<"a","d","d">>, <<"U4E0A","U4F20">>, <<"U6DFB","U52A0">>,
      <<"a","n","a","l","y","z","e">>, <<"A","n","a","l","y","z","e">>,
      <<"U5206","U6790">>, <<"U8BC6","U522B">>,
      <<"U8FD9","U662F","U4EC0","U4E48">>,
      <<"d","o","g">>, <<"U7167","U7247">>, <<" ">>,
      <<"a","d">>, <<"d">>, <<"d","e","l","e">>, <<"t","e">>,
      <<"U5220">>, <<"U9664">> }

IntentQueries == { <<>> } \cup Fragments \cup { a \o b : a \in Fragments, b \in Fragments }

DetectIntent ==
    \E user_query \in IntentQueries :
        /\ resp' = [op |-> "detect_intent", request |-> user_query,
                    ret |-> detect_intent(user_query)]
        /\ UNCHANGED <<instance, agent_service, initialized, sessions, uuids,
                       clock, search_ready, vector_ready, calls, inflight>>

NextIntent == DetectIntent

SpecIntent == InitPure /\ [][NextIntent]_vars

Intents == {"search", "upload", "delete", "analyze", "unknown"}

\* the results a chat turn hands to the synthesizer
ChatResults ==
    { [total |-> Len(Hits(n)), images |-> Hits(n)] : n \in 0..MaxTotal }
    \cup { [message |-> "to upload use /storage/upload"], NoneRec }

GenerateSuggestions ==
    \E intent \in Intents : \E results \in ChatResults :
        /\ resp' = [op |-> "generate_suggestions",
                    request |-> [intent |-> intent, results |-> results],
                    ret |-> generate_suggestions(intent, results)]
        /\ UNCHANGED <<instance, agent_service, initialized, sessions, uuids,
                       clock, search_ready, vector_ready, calls, inflight>>

\* the results execute_action hands to the router's _generate_suggestions
RouterSuggestions ==
    \E request \in QueryRequests : \E total \in 0..MaxTotal :
    \E file_deleted \in BOOLEAN :
        LET env == [total |-> total, file_deleted |-> file_deleted,
                    vector_deleted |-> FALSE, updated |-> file_deleted]
            parameters == IF request.action \in {"delete", "update"}
                          THEN [image_id |-> "img-1", tags |-> <<"cat">>]
                          ELSE request.parameters
            out == execute_action(request.action, parameters, TRUE, TRUE, env)
        IN
        /\ out.raised = None
        /\ resp' = [op |-> "_generate_suggestions",
                    request |-> [action |-> request.action, result |-> out.result],
                    ret |-> router_generate_suggestions(request.action, out.result)]
        /\ UNCHANGED <<instance, agent_service, initialized, sessions, uuids,
                       clock, search_ready, vector_ready, calls, inflight>>

NextSuggest ==
    \/ GenerateSuggestions
    \/ RouterSuggestions

SpecSuggest == Init /\ [][NextSuggest]_vars

----------------------------------------------------------------------------
(* Properties of the session store (Spec) *)

\* s is a prefix of t
IsPrefix(s, t) == Len(s) <= Len(t) /\ SubSeq(t, 1, Len(s)) = s

\* the step just taken is a chat turn
ChatStep == resp'.op = "chat" /\ clock' = clock + 1

\* C1: a chat turn that completes returns an id that resolves afterwards; it
\* is the supplied id when that id resolved before the turn, and no session
\* is created then; otherwise it is the id of the one session the turn created.
C1_ChatResolvesOrCreates ==
    [][ (ChatStep /\ resp'.status = "200") =>
          LET supplied == resp'.request.session_id
              returned == resp'.session_id
          IN  /\ returned \in DOMAIN sessions'
              /\ supplied \in DOMAIN sessions =>
                    /\ returned = supplied
                    /\ DOMAIN sessions' = DOMAIN sessions
              /\ supplied \notin DOMAIN sessions =>
                    /\ returned \notin DOMAIN sessions
                    /\ DOMAIN sessions' = DOMAIN sessions \cup {returned}
      ]_vars

\* a completed turn that was sent an id which does not resolve, and created
\* a session beside an existing one
C1_Witness ==
    /\ resp.op = "chat"
    /\ resp.status = "200"
    /\ resp.request.session_id = "no-such-session"
    /\ resp.session_id \in DOMAIN sessions
    /\ Cardinality(DOMAIN sessions) = 2

\* C2: optimize returns the query unchanged without error; when the session
\* id resolves exactly one query_optimize event with original = optimized =
\* the query is appended to that session and nothing else changes; when it is
\* absent or does not resolve no session changes.
C2_OptimizeIdentityOneEvent ==
    [][ resp'.op = "optimize_query" =>
          LET q   == resp'.request.user_query
              sid == resp'.request.session_id
          IN  /\ resp'.status = "returned"
              /\ resp'.ret = q
              /\ DOMAIN sessions' = DOMAIN sessions
              /\ \A other \in DOMAIN sessions \ {sid} :
                    sessions'[other] = sessions[other]
              /\ sid \in DOMAIN sessions =>
                    LET h  == sessions[sid].history
                        h2 == sessions'[sid].history
                    IN  /\ Len(h2) = Len(h) + 1
                        /\ SubSeq(h2, 1, Len(h)) = h
                        /\ h2[Len(h2)].type = "query_optimize"
                        /\ h2[Len(h2)].original = q
                        /\ h2[Len(h2)].optimized = q
      ]_vars

\* optimize was called on a session that resolves and already had an event
C2_Witness ==
    /\ resp.op = "optimize_query"
    /\ resp.request.session_id \in DOMAIN sessions
    /\ Len(sessions[resp.request.session_id].history) = 2

\* C3: in every step of the session surface each session keeps its history as
\* a prefix of its new history, and keeps its created_at and user_id.
C3_HistoryAppendOnly ==
    [][ \A sid \in DOMAIN sessions \cap DOMAIN sessions' :
          /\ IsPrefix(sessions[sid].history, sessions'[sid].history)
          /\ sessions'[sid].created_at = sessions[sid].created_at
          /\ sessions'[sid].user_id = sessions[sid].user_id
      ]_vars

\* a session of a known user whose history grew twice after its creation
C3_Witness ==
    \E sid \in DOMAIN sessions :
        /\ sessions[sid].user_id = "alice"
        /\ Len(sessions[sid].history) = 2
        /\ sessions[sid].created_at < sessions[sid].history[1].timestamp

----------------------------------------------------------------------------
(* Lifetime of a session (SpecLifetime) *)

\* C4: a session id that resolves resolves in every later state, whatever
\* the operation, AgentService() and initialize included.
C4_SessionsNeverVanish ==
    [][ \A sid \in DOMAIN sessions : sid \in DOMAIN sessions' ]_vars

----------------------------------------------------------------------------
(* The intent classifier (SpecIntent) *)

\* kw occurs in q when case is ignored
Occurs(kw, q) ==
    \E i \in 1..Len(q) :
        /\ i + Len(kw) - 1 <= Len(q)
        /\ \A j \in 1..Len(kw) : LowerChar(q[i + j - 1]) = kw[j]

HasDelete(q)  == \E kw \in DeleteKeywords : Occurs(kw, q)
HasUpload(q)  == \E kw \in UploadKeywords : Occurs(kw, q)
HasAnalyze(q) == \E kw \in AnalyzeKeywords : Occurs(kw, q)

\* C5: the classifier answers delete (0.8) for a query with a delete keyword,
\* else upload (0.8) for one with an upload keyword, else analyze (0.7) for
\* one with an analyze keyword, else search (0.9); matching ignores case;
\* unknown is never answered and entities is empty.
C5_ClassifyByPriority ==
    resp.op = "detect_intent" =>
        LET q == resp.request
            r == resp.ret
        IN  /\ HasDelete(q) => r.intent = "delete" /\ r.confidence = 8
            /\ (~HasDelete(q) /\ HasUpload(q)) =>
                    r.intent = "upload" /\ r.confidence = 8
            /\ (~HasDelete(q) /\ ~HasUpload(q) /\ HasAnalyze(q)) =>
                    r.intent = "analyze" /\ r.confidence = 7
            /\ (~HasDelete(q) /\ ~HasUpload(q) /\ ~HasAnalyze(q)) =>
                    r.intent = "search" /\ r.confidence = 9
            /\ r.intent # "unknown"
            /\ r.entities = {}

\* a query in capitals with a delete and an upload keyword, classified delete
C5_Witness ==
    /\ resp.op = "detect_intent"
    /\ HasDelete(resp.request) /\ HasUpload(resp.request)
    /\ Lower(resp.request) # resp.request
    /\ resp.ret.intent = "delete"

----------------------------------------------------------------------------
(* The suggestion lists (SpecSuggest) *)

\* the last operation made the suggestions for a search result on the chat path
ChatSearchSuggested ==
    /\ resp.op = "generate_suggestions"
    /\ resp.request.intent = "search"
    /\ "total" \in DOMAIN resp.request.results

\* the last operation made them for a successful search on the direct path
RouterSearchSuggested ==
    /\ resp.op = "_generate_suggestions"
    /\ resp.request.action = "search"
    /\ resp.request.result.success

SuggestedTotal ==
    IF resp.op = "generate_suggestions"
    THEN resp.request.results.total
    ELSE resp.request.result.result.total

\* C6 as stated: on both paths a search result gets 2 suggestions when
\* total = 0, 3 when total > 10 and 3 when 1 <= total <= 10.
C6_SuggestionCountsAsStated ==
    (ChatSearchSuggested \/ RouterSearchSuggested) =>
        /\ SuggestedTotal = 0 => Len(resp.ret) = 2
        /\ SuggestedTotal > 10 => Len(resp.ret) = 3
        /\ (1 <= SuggestedTotal /\ SuggestedTotal <= 10) => Len(resp.ret) = 3

\* C6 amended: on the chat path a search result gets 3 suggestions whatever
\* the total; on the direct path a successful search gets 2 when total = 0,
\* 2 when total > 10 and none when 1 <= total <= 10.
C6_SuggestionCountsPerPath ==
    /\ ChatSearchSuggested => Len(resp.ret) = 3
    /\ RouterSearchSuggested =>
        /\ SuggestedTotal = 0 => Len(resp.ret) = 2
        /\ SuggestedTotal > 10 => Len(resp.ret) = 2
        /\ (1 <= SuggestedTotal /\ SuggestedTotal <= 10) => Len(resp.ret) = 0

\* the direct path was asked about a search with exactly 10 hits
C6_Witness ==
    /\ RouterSearchSuggested
    /\ SuggestedTotal = 10
    /\ resp.ret = <<>>

----------------------------------------------------------------------------
(* The action dispatch (SpecDispatch) *)

BackendDeletes ==
    { i \in 1..Len(calls) :
        \/ calls[i].svc = "storage" /\ calls[i].fn = "delete_image"
        \/ calls[i].svc = "vector_db" /\ calls[i].fn = "delete" }

\* C7: a chat turn whose query is classified delete invokes neither the
\* storage delete nor the vector-index delete, whatever the backends' state,
\* and returns results whose message, not empty, points to /agent/execute.
C7_ChatDeleteRedirects ==
    (resp.op = "chat" /\ HasDelete(resp.request.query)) =>
        /\ BackendDeletes = {}
        /\ resp.status = "200"
        /\ resp.intent = "delete"
        /\ "message" \in DOMAIN resp.results
        /\ resp.results.message # ""
        /\ resp.results.message = "delete needs an image id, use /agent/execute"

\* a delete turn answered while the search backend is down and the vector
\* index is up
C7_Witness ==
    /\ resp.op = "chat"
    /\ resp.request.query = QDelete
    /\ resp.status = "200"
    /\ resp.intent = "delete"
    /\ ~search_ready /\ vector_ready

\* the last operation was a search on the chat path, or on the direct path
ChatSearched == resp.op = "chat" /\ detect_intent(resp.request.query).intent = "search"
ExecuteSearched == resp.op = "execute" /\ resp.request.action = "search"

\* the search backend was invoked exactly once, with this query and top_k
SearchedOnce(query_text, top_k) ==
    /\ Len(calls) = 1
    /\ calls[1].svc = "search"
    /\ calls[1].query_text = query_text
    /\ calls[1].top_k = top_k

\* with the backend ready, one invocation with the (optimized) query and the
\* caller's top_k, on either path
SearchInvokedOnceWhenReady ==
    /\ (ChatSearched /\ search_ready) =>
            /\ resp.status = "200"
            /\ resp.optimized_query = resp.request.query
            /\ SearchedOnce(resp.optimized_query, resp.request.top_k)
    /\ (ExecuteSearched /\ search_ready) =>
            /\ resp.status = "200"
            /\ SearchedOnce(Get(resp.request.parameters, "query_text", None),
                            Get(resp.request.parameters, "top_k", 10))

\* with the backend not ready, no invocation on either path
NoSearchWhenNotReady ==
    ((ChatSearched \/ ExecuteSearched) /\ ~search_ready) =>
        calls = <<>> /\ resp.status # "200"

\* C10: a search with the search backend not ready fails with the
\* service-unavailable condition (503) on the chat path and on the direct
\* path, the backend not invoked; with the backend ready it is invoked
\* exactly once with the optimized query and the caller's top_k.
C10_SearchUnavailableOnBothPaths ==
    /\ SearchInvokedOnceWhenReady
    /\ NoSearchWhenNotReady
    /\ ((ChatSearched \/ ExecuteSearched) /\ ~search_ready) => resp.status = "503"

\* the same with the direct path left out of the last conjunct
ChatSearchUnavailable ==
    (ChatSearched /\ ~search_ready) => resp.status = "503"

\* the last operation was an upload or an analyze, on the chat path or on
\* the direct path
ChatNotImplemented ==
    /\ resp.op = "chat"
    /\ detect_intent(resp.request.query).intent \in {"upload", "analyze"}
ExecuteNotImplemented ==
    /\ resp.op = "execute"
    /\ resp.request.action \in {"upload", "analyze"}

\* the messages that say the capability is not available on this path
UnavailableMessages ==
    { "to upload use /storage/upload", "image analysis is coming soon",
      "URL upload is not implemented, use /storage/upload",
      "image analysis is not implemented yet" }

\* the answers of generate_response that say the request was carried out
SuccessAnswers ==
    { "the image was uploaded", "the delete is done", "your request is done" }

\* upload and analyze raise nothing, invoke no backend and carry a message
\* that says the capability is unavailable, on both paths
NotImplementedExplained ==
    /\ ChatNotImplemented =>
            /\ resp.status = "200"
            /\ calls = <<>>
            /\ resp.results.message \in UnavailableMessages
    /\ ExecuteNotImplemented =>
            /\ resp.status = "200"
            /\ calls = <<>>
            /\ resp.response.message \in UnavailableMessages

\* C11: upload and analyze, on the chat path and on the direct path and
\* whatever the backends' readiness, raise nothing, invoke no backend, carry a
\* message that says the capability is unavailable, and are reported as a
\* failure, never as a success: the direct path answers with status error, the
\* chat path with an answer that does not say the request was carried out.
C11_NotImplementedNeverSuccess ==
    /\ NotImplementedExplained
    /\ ExecuteNotImplemented => resp.response.status = "error"
    /\ ChatNotImplemented => resp.answer.template \notin SuccessAnswers

----------------------------------------------------------------------------
(* Direct execution (SpecExecute) *)

ExecutedImageId == Get(resp.request.parameters, "image_id", None)

\* C8: delete or update without an image_id (absent, null or empty) fails
\* with the validation error and invokes no backend, whatever else is sent.
C8_MissingImageIdNoBackend ==
    (/\ resp.op = "execute"
     /\ resp.request.action \in {"delete", "update"}
     /\ (ExecutedImageId = None \/ ExecutedImageId = "")) =>
        /\ resp.status = "ValueError"
        /\ calls = <<>>

\* an update with an empty image_id and new tags, the vector index being up
C8_Witness ==
    /\ resp.op = "execute"
    /\ resp.request.action = "update"
    /\ ExecutedImageId = ""
    /\ "tags" \in DOMAIN resp.request.parameters
    /\ vector_ready
    /\ resp.status = "ValueError"

\* C9: delete with an image_id calls the storage delete first, whatever the
\* vector index does; success is the storage outcome alone; vector_deleted is
\* the vector index's own outcome, false when the index is not ready (it is
\* then not called) or its delete fails.
C9_DeleteReportsBothOutcomes ==
    (/\ resp.op = "execute"
     /\ resp.request.action = "delete"
     /\ ExecutedImageId # None /\ ExecutedImageId # "") =>
        /\ resp.status = "200"
        /\ Len(calls) >= 1
        /\ calls[1].svc = "storage" /\ calls[1].fn = "delete_image"
        /\ calls[1].image_id = ExecutedImageId
        /\ (resp.response.status = "success") = calls[1].returned
        /\ resp.response.result.file_deleted = calls[1].returned
        /\ Len(calls) = (IF vector_ready THEN 2 ELSE 1)
        /\ vector_ready =>
              /\ calls[2].svc = "vector_db" /\ calls[2].fn = "delete"
              /\ calls[2].image_id = ExecutedImageId
              /\ resp.response.result.vector_deleted = calls[2].returned
        /\ ~vector_ready => resp.response.result.vector_deleted = FALSE

\* the file was deleted, the vector entry was not: success, vector_deleted false
C9_Witness ==
    /\ resp.op = "execute"
    /\ resp.request.action = "delete"
    /\ vector_ready
    /\ Len(calls) = 2
    /\ calls[1].returned /\ ~calls[2].returned
    /\ resp.response.status = "success"
    /\ resp.response.result.vector_deleted = FALSE

----------------------------------------------------------------------------
(* Chat turns in flight (SpecTurns) *)

\* e is the whole event optimize_query records for query
CompleteEvent(e, query) ==
    /\ DOMAIN e = {"type", "original", "optimized", "timestamp"}
    /\ e.type = "query_optimize"
    /\ e.original = query
    /\ e.optimized = query

\* the places of the event e in the history h
Places(h, e) == { i \in 1..Len(h) : h[i] = e }

\* the turn has passed the optimize step
Optimized(turn) == turn.pc \in {"dispatch", "responded", "failed", "cancelled"}

\* the turn ended without an answer: its dispatch raised or was abandoned
Unanswered(turn) == turn.pc \in {"failed", "cancelled"}

\* C12: the one step of a turn that changes a history is its optimize step,
\* taken before the dispatch: it appends one complete query_optimize event to
\* the resolved session and changes nothing else.  The step in which the
\* dispatch fails (search backend not ready) or is abandoned changes no
\* session: the resolved session is in the store, its history holds the
\* turn's event once and only complete events, and a session the turn created
\* is in the store while the outcome carries no session id.
C12_FailedTurnKeepsOneEvent ==
    [][ \A t \in Slots :
          LET before == inflight[t]
              after  == inflight'[t]
          IN
          /\ (before.pc = "optimize_append" /\ after.pc = "dispatch") =>
                LET sid == after.session_id IN
                /\ sid \in DOMAIN sessions
                /\ DOMAIN sessions' = DOMAIN sessions
                /\ \A other \in DOMAIN sessions \ {sid} :
                        sessions'[other] = sessions[other]
                /\ Len(sessions'[sid].history) = Len(sessions[sid].history) + 1
                /\ IsPrefix(sessions[sid].history, sessions'[sid].history)
                /\ CompleteEvent(sessions'[sid].history[Len(sessions'[sid].history)],
                                 after.message.query)
          /\ (before.pc = "optimize_lookup" /\ after.pc = "optimize_append") =>
                sessions' = sessions
          /\ (before.pc = "session" /\ after.pc = "optimize_lookup") =>
                /\ \A other \in DOMAIN sessions : sessions'[other] = sessions[other]
                /\ DOMAIN sessions' = DOMAIN sessions \cup after.drawn
                /\ \A new \in after.drawn : sessions'[new].history = <<>>
          /\ (before.pc = "dispatch" /\ Unanswered(after)) =>
                LET sid == after.session_id IN
                /\ sessions' = sessions
                /\ sid \in DOMAIN sessions'
                /\ Cardinality(Places(sessions'[sid].history, after.event)) = 1
                /\ \A i \in 1..Len(sessions'[sid].history) :
                        CompleteEvent(sessions'[sid].history[i],
                                      sessions'[sid].history[i].original)
                /\ after.drawn \subseteq DOMAIN sessions'
                /\ "session_id" \notin DOMAIN after.response
      ]_vars

\* a turn that had to create its session and whose dispatch failed: the
\* session is in the store with the one event, the outcome is the 503
C12_Witness ==
    \E t \in Slots :
        /\ inflight[t].pc = "failed"
        /\ inflight[t].drawn # {}
        /\ inflight[t].session_id \in DOMAIN sessions
        /\ sessions[inflight[t].session_id].history = << inflight[t].event >>
        /\ inflight[t].response.status = "503"

\* a turn abandoned inside the search call, on a session that another turn
\* has written to as well
CancelledTurnReached ==
    \E t \in Slots :
        /\ inflight[t].pc = "cancelled"
        /\ Len(sessions[inflight[t].session_id].history) = 2

\* the turns that work on the session sid and have passed the optimize step
OptimizedOn(sid) ==
    { t \in Slots : Optimized(inflight[t]) /\ inflight[t].session_id = sid }

\* C13: for every session id that resolves, the turns sent that id create no
\* session and work on that session, and the history of the session holds,
\* once each, the complete event of every turn on it that has passed the
\* optimize step, and nothing else: as many events as turns, none lost and
\* none twice, in the order of some serial run of the turns.
C13_ConcurrentTurnsOneEventEach ==
    \A sid \in DOMAIN sessions :
        LET h == sessions[sid].history IN
        /\ \A t \in Slots :
              (inflight[t].pc \notin {"idle", "session"}
               /\ inflight[t].message.session_id = sid) =>
                    /\ inflight[t].session_id = sid
                    /\ inflight[t].drawn = {}
        /\ \A t \in OptimizedOn(sid) :
              /\ Cardinality(Places(h, inflight[t].event)) = 1
              /\ CompleteEvent(inflight[t].event, inflight[t].message.query)
        /\ Len(h) = Cardinality(OptimizedOn(sid))
        /\ \A i \in 1..Len(h) : \E t \in OptimizedOn(sid) : h[i] = inflight[t].event

\* two turns sent the same resolving id are both in flight, past the optimize
\* step and inside the dispatch; the turn that arrived second appended first
C13_Witness ==
    \E t \in Slots : \E u \in Slots :
        /\ t < u
        /\ inflight[t].pc = "dispatch" /\ inflight[u].pc = "dispatch"
        /\ inflight[t].message.session_id \in DOMAIN sessions
        /\ inflight[u].message.session_id = inflight[t].message.session_id
        /\ sessions[inflight[t].message.session_id].history
                = << inflight[u].event, inflight[t].event >>

====
